---- MODULE Spec2Model ----
(***************************************************************************)
(* Model of the BLE mesh transport and relay of pulse-mobile:              *)
(*   src/pulse-mobile/src/contexts/BleContext.tsx  (BleProvider)           *)
(*   src/pulse-mobile/src/contexts/ChatContext.tsx (ChatProvider)          *)
(* One device is modelled; the radio, the backend and the user are the     *)
(* environment and supply the inputs of the actions.                       *)
(*                                                                         *)
(* utils/bleUtils (encodeMessageToChunks, decodeSingleChunk) is not part   *)
(* of the sources at hand; the codec is modelled from the specification.   *)
(* A chunk is kept as the record decodeSingleChunk returns, with its 6     *)
(* data bytes.  JSON texts are far longer than a few chunks, so            *)
(* JSON.stringify / JSON.parse are modelled by a compact injective         *)
(* serialisation (Stringify) and its partial inverse (Parse).              *)
(***************************************************************************)
EXTENDS Integers, Sequences, FiniteSets, TLC

(* ------------------------------ bounds -------------------------------- *)
\* longest byte message drawn in the codec specification
MaxLen == 7
\* message ids 1..NumMsgIds are shared by foreign and own messages
NumMsgIds == 4
\* ids 1..NumRxIds are the ones foreign frames arrive under
NumRxIds == 2
\* ids 1..NumReasmIds are the ones frames arrive under in the reassembly specification
NumReasmIds == 1
\* query ids 1..NumQueries
NumQueries == 1
\* backend calls of one kind in flight
MaxCalls == 1
\* status polls in flight per query
MaxPolls == 1
\* answers counted per query before the model stops counting
MaxAnswers == 2
\* re-deliveries of a stored fragment in the codec specification
MaxDupes == 2
\* devices 1..NumPeers are the ones presence heartbeats arrive from
NumPeers == 1
\* readings of the clock after the first one
MaxClock == 5

(* ------------------------- program constants -------------------------- *)
DATA_PER_CHUNK == 6
HEARTBEAT_TIMEOUT_MS == 15000
PEER_TIMEOUT == 60000

MsgIds == 1..NumMsgIds
RxIds == 1..NumRxIds
ReasmIds == 1..NumReasmIds
QueryIds == 1..NumQueries
\* query ids as a foreign sender may choose them, and all query ids
ForeignIds == (NumQueries + 1)..(2 * NumQueries)
AllQueryIds == QueryIds \cup ForeignIds

\* byte values the codec specification draws from: NUL, ASCII 'A', and 0xFF
\* (a byte that is never valid in UTF-8)
Bytes == {0, 65, 255}

(* ------------------------------ helpers ------------------------------- *)
Put(f, k, v) == [x \in (DOMAIN f) \cup {k} |-> IF x = k THEN v ELSE f[x]]

Max(S) == CHOOSE x \in S : \A y \in S : x >= y

Range(seq) == {seq[i] : i \in 1..Len(seq)}

RECURSIVE Concat(_, _, _)
Concat(f, i, n) == IF i > n THEN << >> ELSE f[i] \o Concat(f, i + 1, n)

(* ------------------------------- codec -------------------------------- *)
\* ceil(len / capacity), minimum 1
ChunkCount(len) == IF len = 0 THEN 1 ELSE (len + DATA_PER_CHUNK - 1) \div DATA_PER_CHUNK

\* the i-th data fragment of a byte message, the last one zero-padded
DataFragment(bytes, i) ==
  [k \in 1..DATA_PER_CHUNK |->
     LET p == (i - 1) * DATA_PER_CHUNK + k
     IN IF p <= Len(bytes) THEN bytes[p] ELSE 0]

EncodeMessageToChunks(bytes, id, isAck) ==
  [i \in 1..ChunkCount(Len(bytes)) |->
     [id |-> id, totalChunks |-> ChunkCount(Len(bytes)), chunkNumber |-> i,
      isAck |-> isAck, data |-> DataFragment(bytes, i)]]

\* TextEncoder: UTF-8 bytes of a string of code points (ASCII and U+FFFD)
RECURSIVE Utf8Encode(_)
Utf8Encode(str) ==
  IF str = << >> THEN << >>
  ELSE (IF Head(str) < 128 THEN <<Head(str)>> ELSE <<239, 191, 189>>)
       \o Utf8Encode(Tail(str))

\* TextDecoder.decode restricted to byte strings without a valid multi-byte
\* sequence: an ASCII byte is its code point, any other byte is U+FFFD
Utf8Decode(bytes) == [k \in 1..Len(bytes) |-> IF bytes[k] < 128 THEN bytes[k] ELSE 65533]

\* .replace(/\0/g, "")
IsNotNul(ch) == ch # 0
StripNul(str) == SelectSeq(str, IsNotNul)

(* --------------------------- relay messages --------------------------- *)
\* RelayMessage (BleContext.tsx:26-35); response is TRUE when the message
\* carries a non-empty response text
Query(q) == [type |-> "RELAY_QUERY", query_id |-> q, response |-> FALSE]
Response(q, hasText) == [type |-> "RELAY_RESPONSE", query_id |-> q, response |-> hasText]
Report == [type |-> "INCIDENT_REPORT", query_id |-> 0, response |-> FALSE]
NotRelay == [type |-> "NONE", query_id |-> 0, response |-> FALSE]

WireMessages ==
  {Query(q) : q \in AllQueryIds} \cup {Response(q, b) : q \in AllQueryIds, b \in BOOLEAN}
  \cup {Report}

\* JSON.stringify: "Q<q>", "R<q>T" / "R<q>", "I"
Stringify(m) ==
  IF m.type = "RELAY_QUERY" THEN <<81, 48 + m.query_id>>
  ELSE IF m.type = "RELAY_RESPONSE"
       THEN (IF m.response THEN <<82, 48 + m.query_id, 84>> ELSE <<82, 48 + m.query_id>>)
       ELSE <<73>>

\* JSON.parse followed by the type tests of the callers; NotRelay stands for
\* a text that is not JSON or has no known type
Parse(str) ==
  IF \E m \in WireMessages : Stringify(m) = str
  THEN CHOOSE m \in WireMessages : Stringify(m) = str
  ELSE NotRelay

\* texts that are not JSON, one and two chunks long
JunkText == <<74>>
LongText == <<74, 74, 74, 74, 74, 74, 74>>
\* the acknowledgement texts of the incident gateway
AckText(ok) == IF ok THEN <<75>> ELSE <<78>>

\* the text of a query id: sendMessage makes `query-<time>-<random>`
\* (ChatContext.tsx:73); a foreign id is `response-` followed by such a text
QueryIdText(q) ==
  IF q \in QueryIds THEN <<"query-", q>> ELSE <<"response-", "query-", q - NumQueries>>

\* variant: the key of a response is the bare query id
RespKeyBare(q) == QueryIdText(q)

\* keys of rebroadcastedQueryIds: the query id, and `response-${query_id}`
QueryKey(q) == QueryIdText(q)
RespKey(q) == <<"response-">> \o QueryIdText(q)

(* ------------------------------- state -------------------------------- *)
VARIABLES
  masterState,            \* masterStateRef: id -> MessageState
  broadcastQueue,         \* broadcastQueueRef: insertion-ordered id -> chunks
  masterInterval,         \* masterIntervalRef is set
  broadcastCursor,        \* broadcastCursorRef
  ownMessageIds,          \* ownMessageIdsRef
  receivedMessageIds,     \* receivedMessageIdsRef
  processedRelayQueries,  \* processedRelayQueriesRef
  rebroadcastedQueryIds,  \* rebroadcastedQueryIdsRef
  hasInternet,            \* netInfo.isConnected of the current render
  listenerHasInternet,    \* hasInternet captured by the registered handleIncomingChunk
  resetPc,                \* position of clearAllAndStop: idle / awaitStop / restart
  relayCalls,             \* POST /api/relay/query calls in flight
  storeCalls,             \* POST /api/incidents/store calls in flight
  pendingQueries,         \* ChatProvider pendingQueries (query ids)
  polls,                  \* GET /api/relay/check calls in flight per query
  answersAdded,           \* history: answers added to the chat per query
  handed,                 \* history: completed messages handed on, per id
  backendCalled,          \* history: relay backend calls started per query
  responsesEnqueued,      \* history: Responses enqueued by the gateway branch
  queryRebroadcasts,      \* history: Queries re-enqueued by the offline branch
  lastAnswer,             \* history: the last Response enqueued by the gateway branch
  sentLog,                \* history: ids of the chunks sent by consecutive ticks
  presence,               \* Date.now(), peerActivityRef, peerHeartbeatsRef and the
                          \* connectedPeers of the last render
  msg,                    \* codec specification: the message being transported
  order,                  \* the fragments delivered: their numbers until completion (codec
                          \* specification), the frame delivered last (echo specification),
                          \* its length (frame specification)
  peer,                   \* mesh specification: the state of a second device in range
  ticks                   \* mesh specification: parity of the timer ticks of the two devices

vars == <<masterState, broadcastQueue, masterInterval, broadcastCursor,
          ownMessageIds, receivedMessageIds, processedRelayQueries,
          rebroadcastedQueryIds, hasInternet, listenerHasInternet, resetPc,
          relayCalls, storeCalls, pendingQueries, polls, answersAdded, handed,
          backendCalled, responsesEnqueued, queryRebroadcasts, lastAnswer,
          sentLog, presence, msg, order, peer, ticks>>

\* the variables of this device
vars_device == <<masterState, broadcastQueue, masterInterval, broadcastCursor,
                 ownMessageIds, receivedMessageIds, processedRelayQueries,
                 rebroadcastedQueryIds, hasInternet, listenerHasInternet, resetPc,
                 relayCalls, storeCalls, pendingQueries, polls, answersAdded, handed,
                 backendCalled, responsesEnqueued, queryRebroadcasts, lastAnswer,
                 sentLog, presence, msg, order>>

\* the state as one record, so that a handler is a function from state to state;
\* overflow is raised when a handler would exceed a bound of the model
Cur ==
  [masterState |-> masterState, broadcastQueue |-> broadcastQueue,
   masterInterval |-> masterInterval, broadcastCursor |-> broadcastCursor,
   ownMessageIds |-> ownMessageIds, receivedMessageIds |-> receivedMessageIds,
   processedRelayQueries |-> processedRelayQueries,
   rebroadcastedQueryIds |-> rebroadcastedQueryIds,
   hasInternet |-> hasInternet, listenerHasInternet |-> listenerHasInternet,
   resetPc |-> resetPc, relayCalls |-> relayCalls, storeCalls |-> storeCalls,
   pendingQueries |-> pendingQueries, polls |-> polls,
   answersAdded |-> answersAdded, handed |-> handed,
   backendCalled |-> backendCalled, responsesEnqueued |-> responsesEnqueued,
   queryRebroadcasts |-> queryRebroadcasts, lastAnswer |-> lastAnswer,
   sentLog |-> sentLog, presence |-> presence, overflow |-> FALSE]

Apply(s) ==
  /\ ~s.overflow
  /\ masterState' = s.masterState
  /\ broadcastQueue' = s.broadcastQueue
  /\ masterInterval' = s.masterInterval
  /\ broadcastCursor' = s.broadcastCursor
  /\ ownMessageIds' = s.ownMessageIds
  /\ receivedMessageIds' = s.receivedMessageIds
  /\ processedRelayQueries' = s.processedRelayQueries
  /\ rebroadcastedQueryIds' = s.rebroadcastedQueryIds
  /\ hasInternet' = s.hasInternet
  /\ listenerHasInternet' = s.listenerHasInternet
  /\ resetPc' = s.resetPc
  /\ relayCalls' = s.relayCalls
  /\ storeCalls' = s.storeCalls
  /\ pendingQueries' = s.pendingQueries
  /\ polls' = s.polls
  /\ answersAdded' = s.answersAdded
  /\ handed' = s.handed
  /\ backendCalled' = s.backendCalled
  /\ responsesEnqueued' = s.responsesEnqueued
  /\ queryRebroadcasts' = s.queryRebroadcasts
  /\ lastAnswer' = s.lastAnswer
  /\ sentLog' = s.sentLog
  /\ presence' = s.presence

\* the peer maps are empty at mount, and no count was returned yet
NoPresence ==
  [now |-> 0, peerActivity |-> << >>, peerHeartbeats |-> << >>, connectedPeers |-> 0]

ZeroCursor == [queueIndex |-> 0, chunkIndex |-> 0]
NoAnswer == [src |-> 0, id |-> 0, isAck |-> FALSE]
NoMsg == [bytes |-> << >>, isAck |-> FALSE]
NoPeer == << >>
NoTicks == <<0, 0>>

InitDevice(online) ==
  /\ masterState = << >>
  /\ broadcastQueue = << >>
  /\ masterInterval = FALSE
  /\ broadcastCursor = ZeroCursor
  /\ ownMessageIds = {}
  /\ receivedMessageIds = {}
  /\ processedRelayQueries = {}
  /\ rebroadcastedQueryIds = {}
  /\ hasInternet = online
  /\ listenerHasInternet = online
  /\ resetPc = "idle"
  /\ relayCalls = {}
  /\ storeCalls = {}
  /\ pendingQueries = {}
  /\ polls = [q \in QueryIds |-> 0]
  /\ answersAdded = [q \in QueryIds |-> 0]
  /\ handed = [i \in MsgIds |-> 0]
  /\ backendCalled = [q \in AllQueryIds |-> 0]
  /\ responsesEnqueued = [q \in AllQueryIds |-> 0]
  /\ queryRebroadcasts = [q \in AllQueryIds |-> 0]
  /\ lastAnswer = NoAnswer
  /\ sentLog = << >>
  /\ presence = NoPresence

\* the same state as a record: a device after mount
NewDevice(online) ==
  [masterState |-> << >>, broadcastQueue |-> << >>,
   masterInterval |-> FALSE, broadcastCursor |-> ZeroCursor,
   ownMessageIds |-> {}, receivedMessageIds |-> {},
   processedRelayQueries |-> {}, rebroadcastedQueryIds |-> {},
   hasInternet |-> online, listenerHasInternet |-> online,
   resetPc |-> "idle", relayCalls |-> {}, storeCalls |-> {},
   pendingQueries |-> {}, polls |-> [q \in QueryIds |-> 0],
   answersAdded |-> [q \in QueryIds |-> 0], handed |-> [i \in MsgIds |-> 0],
   backendCalled |-> [q \in AllQueryIds |-> 0],
   responsesEnqueued |-> [q \in AllQueryIds |-> 0],
   queryRebroadcasts |-> [q \in AllQueryIds |-> 0], lastAnswer |-> NoAnswer,
   sentLog |-> << >>, presence |-> NoPresence, overflow |-> FALSE]

(* ----------------------------- scheduler ------------------------------ *)
QueueIds(queue) == {queue[i].id : i \in 1..Len(queue)}

\* the number of chunks in the queue: the length of one full traversal
RECURSIVE TotalChunks(_)
TotalChunks(queue) ==
  IF queue = << >> THEN 0 ELSE Len(Head(queue).chunks) + TotalChunks(Tail(queue))

LastN(seq, n) == IF Len(seq) <= n THEN seq ELSE SubSeq(seq, Len(seq) - n + 1, Len(seq))

\* Map.set: a present key keeps its position, a new key goes last
QueueSet(queue, id, chunks) ==
  IF id \in QueueIds(queue)
  THEN [i \in 1..Len(queue) |->
          IF queue[i].id = id THEN [id |-> id, chunks |-> chunks] ELSE queue[i]]
  ELSE Append(queue, [id |-> id, chunks |-> chunks])

\* variant: the new timer goes on from the cursor of the old one
StartMasterBroadcastLoopKeepCursor(s) ==
  [s EXCEPT !.masterInterval = TRUE, !.sentLog = << >>]

\* BleContext.tsx:510-551: the old timer is cleared, the cursor is reset and
\* a new timer is set
StartMasterBroadcastLoop(s) ==
  [s EXCEPT !.masterInterval = TRUE, !.broadcastCursor = ZeroCursor, !.sentLog = << >>]

\* variant: the cursor is reset but the timer is left running
StopMasterBroadcastLoopKeepTimer(s) ==
  [s EXCEPT !.broadcastCursor = ZeroCursor, !.sentLog = << >>]

\* BleContext.tsx:554-563
StopMasterBroadcastLoop(s) ==
  [s EXCEPT !.masterInterval = FALSE, !.broadcastCursor = ZeroCursor, !.sentLog = << >>]

AddToBroadcastQueue(s, id, chunks) ==
  LET s1 == [s EXCEPT !.broadcastQueue = QueueSet(@, id, chunks), !.sentLog = << >>]
  IN IF ~s1.masterInterval THEN StartMasterBroadcastLoop(s1) ELSE s1

\* variant: the cursor moves to the next entry after every chunk
AdvanceEntry(s, q0, c0) ==
  [s EXCEPT !.broadcastCursor =
     [queueIndex |-> IF q0 + 1 >= Len(s.broadcastQueue) THEN 0 ELSE q0 + 1,
      chunkIndex |-> 0]]

\* variant: the cursor never leaves the entry it is on
AdvanceStuck(s, q0, c0) ==
  LET c1 == c0 + 1
  IN [s EXCEPT !.broadcastCursor =
        [queueIndex |-> q0,
         chunkIndex |-> IF c1 >= Len(s.broadcastQueue[q0 + 1].chunks) THEN 0 ELSE c1]]

\* variant: an entry is taken off the queue when its last chunk was sent
AdvanceRemove(s, q0, c0) ==
  LET entries == s.broadcastQueue
      c1 == c0 + 1
      rest == SelectSeq(entries, LAMBDA e : e.id # entries[q0 + 1].id)
  IN IF c1 >= Len(entries[q0 + 1].chunks)
     THEN [s EXCEPT !.broadcastQueue = rest,
                    !.broadcastCursor = [queueIndex |-> IF q0 >= Len(rest) THEN 0 ELSE q0,
                                         chunkIndex |-> 0]]
     ELSE [s EXCEPT !.broadcastCursor = [queueIndex |-> q0, chunkIndex |-> c1]]

\* BleContext.tsx:541-548: the cursor after the chunk at (q0, c0) was sent
Advance(s, q0, c0) ==
  LET entries == s.broadcastQueue
      c1 == c0 + 1
  IN [s EXCEPT !.broadcastCursor =
        IF c1 >= Len(entries[q0 + 1].chunks)
        THEN [queueIndex |-> IF q0 + 1 >= Len(entries) THEN 0 ELSE q0 + 1,
              chunkIndex |-> 0]
        ELSE [queueIndex |-> q0, chunkIndex |-> c1]]

\* variant: the stored indices are used as they are
SelectEntryStored(s) == s.broadcastCursor.queueIndex

\* BleContext.tsx:523-524, the queueIndex a tick selects
SelectEntry(s) ==
  IF s.broadcastCursor.queueIndex >= Len(s.broadcastQueue)
  THEN 0 ELSE s.broadcastCursor.queueIndex

\* BleContext.tsx:533, the chunkIndex a tick selects in the entry cur
SelectChunk(s, cur) ==
  IF s.broadcastCursor.chunkIndex >= Len(cur.chunks)
  THEN 0 ELSE s.broadcastCursor.chunkIndex

\* the interval callback of startMasterBroadcastLoop
TickStep(s) ==
  LET entries == s.broadcastQueue
      q0 == SelectEntry(s)
      cur == entries[q0 + 1]
      c0 == SelectChunk(s, cur)
  IN IF Len(entries) = 0 THEN StopMasterBroadcastLoop(s)
     ELSE IF Len(cur.chunks) = 0
          THEN [s EXCEPT !.broadcastQueue = SelectSeq(entries, LAMBDA e : e.id # cur.id),
                         !.broadcastCursor = ZeroCursor, !.sentLog = << >>]
          ELSE Advance([s EXCEPT !.sentLog = LastN(Append(@, cur.chunks[c0 + 1].id),
                                                     TotalChunks(entries))],
                       q0, c0)

\* BleContext.tsx:516-539: the chunk the interval callback hands to
\* broadcastOverBle, if any
TickChunks(s) ==
  LET entries == s.broadcastQueue
      q0 == SelectEntry(s)
      cur == entries[q0 + 1]
      c0 == SelectChunk(s, cur)
  IN IF Len(entries) = 0 THEN {}
     ELSE IF Len(cur.chunks) = 0 THEN {}
     ELSE {cur.chunks[c0 + 1]}

(* ----------------------------- broadcast ------------------------------ *)
\* ids encodeMessageToChunks can hand out as new: those the device does not hold
FreeIds(s) == MsgIds \ ((DOMAIN s.masterState) \cup s.ownMessageIds
                          \cup QueueIds(s.broadcastQueue))

\* the model hands out the largest free id, so that the low ids stay free for
\* foreign frames as long as possible
NewMessageId(s) == Max(FreeIds(s))

CompleteState(chunks, isAck, text) ==
  [totalChunks |-> Len(chunks), isComplete |-> TRUE, isAck |-> isAck,
   chunks |-> chunks, fullMessage |-> text]

\* variant: the message is encoded and stored in the ack role
BroadcastMessageAsAck(s, message) ==
  IF FreeIds(s) = {} THEN [s EXCEPT !.overflow = TRUE]
  ELSE LET id == NewMessageId(s)
           chunks == EncodeMessageToChunks(Utf8Encode(message), id, TRUE)
           s1 == [s EXCEPT !.ownMessageIds = @ \cup {id},
                           !.masterState = Put(@, id, CompleteState(chunks, TRUE, message))]
       IN AddToBroadcastQueue(s1, id, chunks)

\* BleContext.tsx:566-597
BroadcastMessage(s, message) ==
  IF FreeIds(s) = {} THEN [s EXCEPT !.overflow = TRUE]
  ELSE LET id == NewMessageId(s)
           chunks == EncodeMessageToChunks(Utf8Encode(message), id, FALSE)
           s1 == [s EXCEPT !.ownMessageIds = @ \cup {id},
                           !.masterState = Put(@, id, CompleteState(chunks, FALSE, message))]
       IN AddToBroadcastQueue(s1, id, chunks)

(* -------------------------------- chat -------------------------------- *)
\* ChatContext.tsx:256-300, the effect on [hasInternet, pendingQueries]: one
\* status poll is started for every pending query
ReconnectEffect(s) ==
  IF s.hasInternet /\ s.pendingQueries # {}
  THEN [s EXCEPT !.polls = [q \in QueryIds |->
                              IF q \in s.pendingQueries THEN @[q] + 1 ELSE @[q]],
                 !.overflow = @ \/ \E q \in s.pendingQueries : s.polls[q] >= MaxPolls]
  ELSE s

\* the answer of a query is added to the chat messages
AddAnswer(s, q) ==
  [s EXCEPT !.answersAdded[q] = @ + 1,
            !.overflow = @ \/ s.answersAdded[q] >= MaxAnswers]

\* variant: the answer is added but the query stays pending
OnRelayResponseCallbackKeep(s, q) ==
  IF q \in s.pendingQueries THEN AddAnswer(s, q) ELSE s

\* ChatContext.tsx:210-252, the callback registered with onRelayResponse
OnRelayResponseCallback(s, q) ==
  IF q \in s.pendingQueries
  THEN ReconnectEffect([AddAnswer(s, q) EXCEPT !.pendingQueries = @ \ {q}])
  ELSE s

\* variant: a completed query gets its answer but stays pending
PollContinuationKeep(s, q, completed) ==
  LET s1 == [s EXCEPT !.polls[q] = @ - 1]
  IN IF completed THEN AddAnswer(s1, q) ELSE s1

\* ChatContext.tsx:261-298, the continuation of one status poll
PollContinuation(s, q, completed) ==
  LET s1 == [s EXCEPT !.polls[q] = @ - 1]
  IN IF completed
     THEN ReconnectEffect([AddAnswer(s1, q) EXCEPT !.pendingQueries = @ \ {q}])
     ELSE s1

(* -------------------------------- relay ------------------------------- *)
\* variant: the key is not recorded
MarkRebroadcastedNot(s, key) == s

\* BleContext.tsx:396 and 424
MarkRebroadcasted(s, key) == [s EXCEPT !.rebroadcastedQueryIds = @ \cup {key}]

\* handleRelayMessage up to its first await; src is the id of the message the
\* relay message was reassembled from (history only: the code does not pass it)
HandleRelayMessage(s, message, src) ==
  LET q == message.query_id IN
  IF message.type = "RELAY_QUERY"
  THEN IF q \in s.processedRelayQueries THEN s
       ELSE IF QueryKey(q) \in s.rebroadcastedQueryIds THEN s
       ELSE IF s.listenerHasInternet
            THEN [s EXCEPT !.processedRelayQueries = @ \cup {q},
                           !.relayCalls = @ \cup {[q |-> q, src |-> src]},
                           !.backendCalled[q] = @ + 1,
                           !.overflow = @ \/ Cardinality(s.relayCalls) >= MaxCalls]
            ELSE BroadcastMessage(
                   [MarkRebroadcasted(s, QueryKey(q)) EXCEPT !.queryRebroadcasts[q] = @ + 1],
                   Stringify(message))
  ELSE LET s1 == IF message.response THEN OnRelayResponseCallback(s, q) ELSE s
       IN IF ~s1.listenerHasInternet /\ RespKey(q) \notin s1.rebroadcastedQueryIds
          THEN BroadcastMessage(
                 MarkRebroadcasted(s1, RespKey(q)),
                 Stringify(message))
          ELSE s1

\* relayResponse, called by the continuation of the backend call
RelayResponse(s, q) == BroadcastMessage(s, Stringify(Response(q, TRUE)))

\* variant: a failed backend call falls back to the offline relay of the query
RelayContinuationFallback(s, call, success) ==
  LET s1 == [s EXCEPT !.relayCalls = @ \ {call}]
      s2 == RelayResponse(s1, call.q)
      id == NewMessageId(s1)
  IN IF ~success
     THEN BroadcastMessage(MarkRebroadcasted(s1, QueryKey(call.q)), Stringify(Query(call.q)))
     ELSE IF s2.overflow THEN s2
     ELSE [s2 EXCEPT !.responsesEnqueued[call.q] = @ + 1,
                     !.lastAnswer = [src |-> call.src, id |-> id,
                                     isAck |-> s2.broadcastQueue[Len(s2.broadcastQueue)].chunks[1].isAck]]

\* handleRelayMessage after `await fetch(.../api/relay/query)`; success is
\* FALSE for a rejected fetch, a non-OK status and a result without
\* success/response (BleContext.tsx:370-390)
RelayContinuation(s, call, success) ==
  LET s1 == [s EXCEPT !.relayCalls = @ \ {call}]
      s2 == RelayResponse(s1, call.q)
      id == NewMessageId(s1)
  IN IF ~success THEN s1
     ELSE IF s2.overflow THEN s2
     ELSE [s2 EXCEPT !.responsesEnqueued[call.q] = @ + 1,
                     !.lastAnswer = [src |-> call.src, id |-> id,
                                     isAck |-> s2.broadcastQueue[Len(s2.broadcastQueue)].chunks[1].isAck]]

\* handleApiResponse up to its first await
HandleApiResponse(s, id, messageText) ==
  LET parsed == Parse(messageText) IN
  IF parsed.type \in {"RELAY_QUERY", "RELAY_RESPONSE"}
  THEN HandleRelayMessage(s, parsed, id)
  ELSE IF parsed.type = "INCIDENT_REPORT"
       THEN [s EXCEPT !.storeCalls = @ \cup {id},
                      !.overflow = @ \/ Cardinality(s.storeCalls) >= MaxCalls]
       ELSE s

\* variant: the acknowledgement is encoded and stored in the request role
StoreContinuationAsRequest(s, id, outcome) ==
  LET s1 == [s EXCEPT !.storeCalls = @ \ {id}]
      apiResponse == AckText(outcome = "ok")
      ackChunks == EncodeMessageToChunks(Utf8Encode(apiResponse), id, FALSE)
  IN IF outcome = "throw" THEN s1
     ELSE AddToBroadcastQueue(
            [s1 EXCEPT !.masterState = Put(@, id, CompleteState(ackChunks, FALSE, apiResponse))],
            id, ackChunks)

\* handleApiResponse after `await fetch(.../api/incidents/store)`
StoreContinuation(s, id, outcome) ==
  LET s1 == [s EXCEPT !.storeCalls = @ \ {id}]
      apiResponse == AckText(outcome = "ok")
      ackChunks == EncodeMessageToChunks(Utf8Encode(apiResponse), id, TRUE)
  IN IF outcome = "throw" THEN s1
     ELSE AddToBroadcastQueue(
            [s1 EXCEPT !.masterState = Put(@, id, CompleteState(ackChunks, TRUE, apiResponse))],
            id, ackChunks)

(* ----------------------------- reassembly ----------------------------- *)
NewEntry(c) ==
  [totalChunks |-> c.totalChunks, isComplete |-> FALSE, isAck |-> c.isAck,
   chunks |-> << >>, fullMessage |-> << >>]

\* variant: the zero padding of the last fragment is kept
ReassembleKeepPadding(entry) ==
  Utf8Decode(
    Concat([i \in 1..entry.totalChunks |-> entry.chunks[i].data], 1, entry.totalChunks))

\* BleContext.tsx:195-209
Reassemble(entry) ==
  StripNul(Utf8Decode(
    Concat([i \in 1..entry.totalChunks |-> entry.chunks[i].data], 1, entry.totalChunks)))

\* BleContext.tsx:215-237: a completed request-role message is handed on
Dispatch(s, id, fullMessage) ==
  LET s1 == [s EXCEPT !.handed[id] = @ + 1]
      parsed == Parse(fullMessage)
  IN IF s1.listenerHasInternet THEN HandleApiResponse(s1, id, fullMessage)
     ELSE IF parsed.type \in {"RELAY_QUERY", "RELAY_RESPONSE"}
          THEN HandleRelayMessage(s1, parsed, id)
          ELSE s1

\* variant: a complete message is handed on whatever its role
ForRelayLayerAnyRole(e) == TRUE

\* BleContext.tsx:215: only a request-role message is handed on
ForRelayLayer(e) == ~e.isAck

\* variant: a complete entry still takes fragments it does not hold
AlreadyHandledStored(e, c) == c.chunkNumber \in DOMAIN e.chunks

\* BleContext.tsx:184
AlreadyHandled(e, c) == e.isComplete \/ c.chunkNumber \in DOMAIN e.chunks

\* variant: fragments are stored in arrival order
StoreChunkAppend(e, c) == [e EXCEPT !.chunks = Put(@, Cardinality(DOMAIN @) + 1, c)]

\* BleContext.tsx:188
StoreChunk(e, c) == [e EXCEPT !.chunks = Put(@, c.chunkNumber, c)]

\* variant: every fragment with the ack flag resets the entry
SwitchesOnEveryAck(e, c) == c.isAck

\* BleContext.tsx:162: a request-role entry meets a fragment with the ack flag
SwitchesToAck(e, c) == ~e.isAck /\ c.isAck

\* variant: no frame is taken for a broadcast of this device
IsOwnBroadcastNever(s, c) == FALSE

\* BleContext.tsx:147: the frame carries the id of a message this device sent
IsOwnBroadcast(s, c) == c.id \in s.ownMessageIds

HandleIncomingChunk(s, c) ==
  IF IsOwnBroadcast(s, c) THEN s
  ELSE
    LET s1 == [s EXCEPT !.receivedMessageIds = @ \cup {c.id},
                        !.presence.peerActivity =
                          IF c.id \in s.receivedMessageIds THEN @
                          ELSE Put(@, c.id, s.presence.now)]
        had == c.id \in DOMAIN s.masterState
        e0 == IF had THEN s.masterState[c.id] ELSE NewEntry(c)
        e1 == IF had /\ SwitchesToAck(e0, c)
              THEN [e0 EXCEPT !.isAck = TRUE, !.isComplete = FALSE,
                              !.fullMessage = << >>, !.chunks = << >>,
                              !.totalChunks = c.totalChunks]
              ELSE e0
        e2 == StoreChunk(e1, c)
        e3 == [e2 EXCEPT !.isComplete = TRUE]
        e4 == [e3 EXCEPT !.fullMessage = Reassemble(e2)]
        Store(e) == [s1 EXCEPT !.masterState = Put(@, c.id, e)]
    IN IF AlreadyHandled(e1, c) THEN Store(e1)
       ELSE IF Cardinality(DOMAIN e2.chunks) # e2.totalChunks THEN Store(e2)
       \* entry.chunks.get(i)! is undefined for a missing i: the handler throws
       \* at line 202, after isComplete was set
       ELSE IF DOMAIN e2.chunks # 1..e2.totalChunks THEN Store(e3)
       ELSE IF ~ForRelayLayer(e4) THEN Store(e4)
       ELSE Dispatch(Store(e4), c.id, e4.fullMessage)

(* ------------------------------- frames ------------------------------- *)
\* BleContext.tsx:202: the data of a frame follows a header of three bytes
HEADER_LEN == 3

\* a frame as bytes: id, total, sequence number with the ack flag in its
\* high bit, data
EncodeFrame(c) ==
  <<c.id, c.totalChunks, IF c.isAck THEN c.chunkNumber + 128 ELSE c.chunkNumber>>
    \o c.data

\* what decodeSingleChunk returns for a frame it cannot decode
Undecoded ==
  [id |-> 0, totalChunks |-> 0, chunkNumber |-> 0, isAck |-> FALSE, data |-> << >>]

\* variant: the missing data bytes of a short frame are read as zero
DecodeSingleChunkPadded(raw) ==
  IF Len(raw) < HEADER_LEN THEN Undecoded
  ELSE [id |-> raw[1], totalChunks |-> raw[2], chunkNumber |-> raw[3] % 128,
        isAck |-> raw[3] >= 128,
        data |-> [k \in 1..DATA_PER_CHUNK |->
                    IF HEADER_LEN + k <= Len(raw) THEN raw[HEADER_LEN + k] ELSE 0]]

\* decodeSingleChunk: a frame of another length than header and data is
\* not decoded
DecodeSingleChunk(raw) ==
  IF Len(raw) # HEADER_LEN + DATA_PER_CHUNK THEN Undecoded
  ELSE [id |-> raw[1], totalChunks |-> raw[2], chunkNumber |-> raw[3] % 128,
        isAck |-> raw[3] >= 128,
        data |-> SubSeq(raw, HEADER_LEN + 1, Len(raw))]

\* BleContext.tsx:128-130, then the handler of a decoded frame
HandleRawFrame(s, raw) ==
  LET decoded == DecodeSingleChunk(raw)
  IN IF decoded = Undecoded THEN s ELSE HandleIncomingChunk(s, decoded)

(* ------------------------------ presence ------------------------------ *)
\* deviceIdRef of this device and of the devices heartbeats arrive from
OwnDevice == 0
PeerDevices == 1..NumPeers

\* the clock is read every HEARTBEAT_TIMEOUT_MS milliseconds
ClockStep == HEARTBEAT_TIMEOUT_MS

\* BleContext.tsx:134-143: a frame whose text is HEARTBEAT:<d>
HandleHeartbeat(s, d) ==
  IF d # OwnDevice
  THEN [s EXCEPT !.presence.peerHeartbeats = Put(@, d, s.presence.now)]
  ELSE s

\* BleContext.tsx:642: the heartbeat entries that are not deleted
AlivePeers(s) ==
  {d \in DOMAIN s.presence.peerHeartbeats :
     ~(s.presence.now - s.presence.peerHeartbeats[d] > HEARTBEAT_TIMEOUT_MS)}

\* variant: every heartbeat entry is counted and none is deleted
GetActivePeerCountAll(s) ==
  [s EXCEPT !.presence.connectedPeers = Cardinality(DOMAIN s.presence.peerHeartbeats)]

\* BleContext.tsx:636-650, called by every render (866)
GetActivePeerCount(s) ==
  [s EXCEPT !.presence.peerHeartbeats = [d \in AlivePeers(s) |-> @[d]],
            !.presence.connectedPeers = Cardinality(AlivePeers(s))]

(* ------------------------ connectivity and reset ---------------------- *)
\* BleContext.tsx:741-769, the effect on [hasInternet]
OnlineCleanup(s) ==
  LET IsAckEntry(e) == e.id \in DOMAIN s.masterState /\ s.masterState[e.id].isAck
      s1 == [s EXCEPT !.broadcastQueue = SelectSeq(@, IsAckEntry),
                      !.sentLog = IF SelectSeq(s.broadcastQueue, IsAckEntry) = s.broadcastQueue
                                  THEN @ ELSE << >>]
  IN IF ~s.hasInternet THEN s
     ELSE IF Len(s1.broadcastQueue) = 0 /\ s1.masterInterval
          THEN StopMasterBroadcastLoop(s1)
          ELSE s1

\* variant: the deduplication sets are cleared before the await
ClearBeginEarly(s) ==
  [s EXCEPT !.masterInterval = FALSE, !.resetPc = "awaitStop",
            !.listenerHasInternet = s.hasInternet, !.sentLog = << >>,
            !.ownMessageIds = {}, !.receivedMessageIds = {},
            !.rebroadcastedQueryIds = {}, !.processedRelayQueries = {}]

\* clearAllAndStop up to `await stopBleBroadcast()`; the scanner is stopped
\* and will be restarted with the handleIncomingChunk of the calling render
ClearBegin(s) ==
  [s EXCEPT !.masterInterval = FALSE, !.resetPc = "awaitStop",
            !.listenerHasInternet = s.hasInternet, !.sentLog = << >>]

\* clearAllAndStop after the await, up to the setTimeout
ClearFinish(s) ==
  [s EXCEPT !.masterState = << >>, !.broadcastQueue = << >>,
            !.ownMessageIds = {}, !.receivedMessageIds = {},
            !.rebroadcastedQueryIds = {}, !.processedRelayQueries = {},
            !.broadcastCursor = ZeroCursor, !.resetPc = "restart",
            !.presence.peerActivity = << >>,
            !.handed = [i \in MsgIds |-> 0],
            !.backendCalled = [q \in AllQueryIds |-> 0],
            !.responsesEnqueued = [q \in AllQueryIds |-> 0],
            !.queryRebroadcasts = [q \in AllQueryIds |-> 0],
            !.lastAnswer = NoAnswer, !.sentLog = << >>]

\* variant: the query is broadcast whatever the connectivity
RelayQueryAlways(s, q) == BroadcastMessage(s, Stringify(Query(q)))

\* BleContext.tsx:436-469
RelayQuery(s, q) ==
  IF s.hasInternet THEN s ELSE BroadcastMessage(s, Stringify(Query(q)))

\* ChatContext.tsx:142-173, sendMessage offline
SendOffline(s, q) ==
  RelayQuery(ReconnectEffect([s EXCEPT !.pendingQueries = @ \cup {q}]), q)

(* ------------------------------- inputs ------------------------------- *)
\* texts the radio can carry to the device
WireTexts == {Stringify(Report), LongText}

ChunksOf(text, id, isAck) ==
  LET chunks == EncodeMessageToChunks(Utf8Encode(text), id, isAck)
  IN {chunks[i] : i \in 1..Len(chunks)}

\* a frame whose sequence number lies outside 1..total
StrayChunk(id, isAck) ==
  [id |-> id, totalChunks |-> 1, chunkNumber |-> 2, isAck |-> isAck,
   data |-> DataFragment(JunkText, 1)]

\* every frame of the model: both roles, well-formed or not
InChunks ==
  UNION {ChunksOf(t, id, a) \cup {StrayChunk(id, a)} :
           t \in WireTexts, id \in ReasmIds, a \in BOOLEAN}

\* the frames of relay messages as peers broadcast them
RelayChunks ==
  UNION {ChunksOf(Stringify(m), id, FALSE) :
           m \in {Query(q) : q \in QueryIds} \cup {Response(q, TRUE) : q \in QueryIds},
           id \in RxIds}

\* the frames of relay messages under every query id a sender may choose
NamedChunks ==
  UNION {ChunksOf(Stringify(m), id, FALSE) :
           m \in {Query(q) : q \in AllQueryIds} \cup {Response(q, TRUE) : q \in AllQueryIds},
           id \in RxIds}

\* the frames of relay messages as bytes, and frames cut short: empty, the
\* header alone, and all but the last byte
WholeFrames == {EncodeFrame(c) : c \in RelayChunks}
TruncatedFrames ==
  UNION {{SubSeq(raw, 1, n) : n \in {0, HEADER_LEN, Len(raw) - 1}} :
           raw \in WholeFrames}

\* the frames of a text that is no relay message
PresenceChunks == UNION {ChunksOf(JunkText, id, FALSE) : id \in ReasmIds}

\* the frames of responses
ResponseChunks ==
  UNION {ChunksOf(Stringify(Response(q, b)), id, FALSE) :
           q \in QueryIds, b \in BOOLEAN, id \in RxIds}

\* the id a device gives the first message it sends
EchoId == Max(MsgIds)

\* the frames a device hears under that id: echoes of requests and
\* acknowledgements, of one and two chunks
EchoChunks ==
  UNION {ChunksOf(t, EchoId, a) : t \in {AckText(TRUE), LongText}, a \in BOOLEAN}

\* texts the user broadcasts from the mesh screen: one and two chunks long
UserTexts == {Stringify(Report), LongText}

\* byte messages of the codec specification: every message over Bytes up to
\* MaxLen bytes, "HELLO", and the 20-byte message of four fragments
ScenarioMessages ==
  { <<72, 69, 76, 76, 79>>,
    <<65, 66, 67, 68, 69, 70, 71, 72, 73, 74, 75, 76, 77, 78, 79, 80, 81, 82, 83, 84>>,
    <<65, 66, 67, 68, 69, 70, 0, 72, 73, 74, 75, 76, 77, 78>> }

Messages == (UNION {[1..n -> Bytes] : n \in 1..MaxLen}) \cup ScenarioMessages

\* the id the message of the codec specification travels under
CodecId == CHOOSE id \in RxIds : TRUE

(* ------------------------------- actions ------------------------------ *)
Receive(chunks) ==
  /\ resetPc = "idle"
  /\ \E c \in chunks : Apply(HandleIncomingChunk(Cur, c))
  /\ UNCHANGED <<msg, order, peer, ticks>>

ReceiveAny == Receive(InChunks)

ReceiveRelay == Receive(RelayChunks)

ReceiveResponse == Receive(ResponseChunks)

ReceiveNamed == Receive(NamedChunks)

ObservePeers == Receive(PresenceChunks)

\* the scanner hands a frame, whole or cut short, to handleIncomingChunk;
\* order keeps the length of the frame
ReceiveRawFrame ==
  /\ resetPc = "idle"
  /\ \E raw \in WholeFrames \cup TruncatedFrames :
       /\ Apply(HandleRawFrame(Cur, raw))
       /\ order' = <<Len(raw)>>
  /\ UNCHANGED <<msg, peer, ticks>>

\* a presence heartbeat arrives
HearHeartbeat ==
  /\ resetPc = "idle"
  /\ \E d \in PeerDevices \cup {OwnDevice} : Apply(HandleHeartbeat(Cur, d))
  /\ UNCHANGED <<msg, order, peer, ticks>>

\* Date.now() has moved on
ClockAdvances ==
  /\ presence.now < MaxClock * ClockStep
  /\ Apply([Cur EXCEPT !.presence.now = @ + ClockStep])
  /\ UNCHANGED <<msg, order, peer, ticks>>

\* a render evaluates connectedPeers: getActivePeerCount()
ReadPeerCount ==
  /\ Apply(GetActivePeerCount(Cur))
  /\ UNCHANGED <<msg, order, peer, ticks>>

\* one fragment of the message is delivered; a fragment that is already
\* stored in a collecting entry is a re-delivery
Dupes(o) == Len(o) - Cardinality(Range(o))

DeliverFragment ==
  \E k \in 1..ChunkCount(Len(msg.bytes)) :
    LET c == EncodeMessageToChunks(msg.bytes, CodecId, msg.isAck)[k]
        collecting == CodecId \notin DOMAIN masterState \/ ~masterState[CodecId].isComplete
    IN /\ (collecting /\ k \in Range(order)) => Dupes(order) < MaxDupes
       /\ Apply(HandleIncomingChunk(Cur, c))
       /\ order' = IF collecting THEN Append(order, k) ELSE order
       /\ UNCHANGED <<msg, peer, ticks>>

\* a frame reaches the handler; it is remembered as the frame delivered last
DeliverEcho ==
  /\ resetPc = "idle"
  /\ \E c \in EchoChunks :
       /\ Apply(HandleIncomingChunk(Cur, c))
       /\ order' = <<c>>
  /\ UNCHANGED <<msg, peer, ticks>>

Tick ==
  /\ masterInterval
  /\ Apply(TickStep(Cur))
  /\ UNCHANGED <<msg, order, peer, ticks>>

RelayReturn ==
  /\ \E call \in relayCalls, success \in BOOLEAN :
       Apply(RelayContinuation(Cur, call, success))
  /\ UNCHANGED <<msg, order, peer, ticks>>

StoreReturn ==
  /\ \E id \in storeCalls, outcome \in {"ok", "fail", "throw"} :
       Apply(StoreContinuation(Cur, id, outcome))
  /\ UNCHANGED <<msg, order, peer, ticks>>

PollReturn ==
  /\ \E q \in QueryIds, completed \in BOOLEAN :
       /\ polls[q] > 0
       /\ Apply(PollContinuation(Cur, q, completed))
  /\ UNCHANGED <<msg, order, peer, ticks>>

\* a query id is new: Date.now() and a random suffix
SendMessage ==
  /\ \E q \in QueryIds :
       /\ q \notin pendingQueries
       /\ answersAdded[q] = 0
       /\ ~hasInternet
       /\ Apply(SendOffline(Cur, q))
  /\ UNCHANGED <<msg, order, peer, ticks>>

\* a consumer of the context calls relayQuery
RelayQueryCall ==
  /\ \E q \in QueryIds : Apply(RelayQuery(Cur, q))
  /\ UNCHANGED <<msg, order, peer, ticks>>

UserBroadcast ==
  /\ \E t \in UserTexts : Apply(BroadcastMessage(Cur, t))
  /\ UNCHANGED <<msg, order, peer, ticks>>

NetChange ==
  /\ Apply(ReconnectEffect(OnlineCleanup([Cur EXCEPT !.hasInternet = ~hasInternet])))
  /\ UNCHANGED <<msg, order, peer, ticks>>

StartBroadcasting ==
  /\ Apply(StartMasterBroadcastLoop(Cur))
  /\ UNCHANGED <<msg, order, peer, ticks>>

StopBroadcasting ==
  /\ Apply(StopMasterBroadcastLoop(Cur))
  /\ UNCHANGED <<msg, order, peer, ticks>>

ClearAllAndStop ==
  /\ resetPc = "idle"
  /\ Apply(ClearBegin(Cur))
  /\ UNCHANGED <<msg, order, peer, ticks>>

ClearAllAndStopResume ==
  /\ resetPc = "awaitStop"
  /\ Apply(ClearFinish(Cur))
  /\ UNCHANGED <<msg, order, peer, ticks>>

RestartScanner ==
  /\ resetPc = "restart"
  /\ Apply([Cur EXCEPT !.resetPc = "idle"])
  /\ UNCHANGED <<msg, order, peer, ticks>>

\* the device s after the chunks of a tick of the other device reached its
\* scanner or were missed
Hear(s, chunks, heard) ==
  IF ~heard \/ chunks = {} \/ s.resetPc # "idle" THEN s
  ELSE CHOOSE r \in {HandleIncomingChunk(s, c) : c \in chunks} : TRUE

\* the interval timer of this device fires
OwnTimerFires == masterInterval /\ ticks' = [ticks EXCEPT ![1] = 1 - @]

\* the interval timer of the device in range fires
PeerTimerFires == peer.masterInterval /\ ticks' = [ticks EXCEPT ![2] = 1 - @]

\* a tick of this device; the device in range hears the chunk or misses it
MeshTickWith(heard) ==
  /\ OwnTimerFires
  /\ \E s \in {TickStep(Cur)}, p \in {Hear(peer, TickChunks(Cur), heard)} :
       /\ Apply(s)
       /\ ~p.overflow
       /\ peer' = p
  /\ UNCHANGED <<msg, order>>

MeshTick == \E heard \in BOOLEAN : MeshTickWith(heard)

\* a tick of the device in range; this device hears the chunk or misses it
PeerTickWith(heard) ==
  /\ PeerTimerFires
  /\ \E s \in {Hear(Cur, TickChunks(peer), heard)}, p \in {TickStep(peer)} :
       /\ Apply(s)
       /\ peer' = p
  /\ UNCHANGED <<msg, order>>

PeerTick == \E heard \in BOOLEAN : PeerTickWith(heard)

\* the backend call of the device in range returns, with an answer or not
PeerRelayReturnWith(success) ==
  /\ \E call \in peer.relayCalls :
       \E p \in {RelayContinuation(peer, call, success)} :
         /\ ~p.overflow
         /\ peer' = p
  /\ UNCHANGED <<vars_device, ticks>>

PeerRelayReturn == \E success \in BOOLEAN : PeerRelayReturnWith(success)

\* the connectivity of the device in range changes
PeerNetChange ==
  /\ peer' = OnlineCleanup([peer EXCEPT !.hasInternet = ~peer.hasInternet])
  /\ UNCHANGED <<vars_device, ticks>>

(* --------------------------- specifications --------------------------- *)
Init ==
  /\ \E online \in BOOLEAN : InitDevice(online)
  /\ msg = NoMsg
  /\ order = << >>
  /\ peer = NoPeer
  /\ ticks = NoTicks

\* the codec and the reassembly of one message
InitCodec ==
  /\ InitDevice(FALSE)
  /\ msg \in [bytes : Messages, isAck : BOOLEAN]
  /\ order = << >>
  /\ peer = NoPeer
  /\ ticks = NoTicks

NextCodec == DeliverFragment

SpecCodec == InitCodec /\ [][NextCodec]_vars

\* reassembly under arbitrary frames
NextReasm ==
  \/ ReceiveAny
  \/ StoreReturn
  \/ NetChange
  \/ ClearAllAndStop
  \/ ClearAllAndStopResume
  \/ RestartScanner

SpecReasm == Init /\ [][NextReasm]_vars

\* the relay layer of a device that receives queries, responses and reports
NextRelay ==
  \/ ReceiveRelay
  \/ RelayReturn
  \/ NetChange
  \/ ClearAllAndStop
  \/ ClearAllAndStopResume
  \/ RestartScanner

SpecRelay == Init /\ [][NextRelay]_vars

\* the relay of messages whose query ids are chosen by the sender
NextNames ==
  \/ ReceiveNamed
  \/ RelayReturn
  \/ NetChange

SpecNames == Init /\ [][NextNames]_vars

\* relayQuery called by the consumers of the context, on a relaying device
NextQuery ==
  \/ RelayQueryCall
  \/ ReceiveRelay
  \/ RelayReturn
  \/ NetChange
  \/ Tick

SpecQuery == Init /\ [][NextQuery]_vars

\* the relay of frames as the scanner delivers them, whole or cut short
NextFrames ==
  \/ ReceiveRawFrame
  \/ HearHeartbeat
  \/ RelayReturn
  \/ NetChange

SpecFrames == Init /\ [][NextFrames]_vars

\* the peer maps: observed message ids, heartbeats, the clock and the reads
NextPeers ==
  \/ ObservePeers
  \/ HearHeartbeat
  \/ ClockAdvances
  \/ ReadPeerCount
  \/ ClearAllAndStop
  \/ ClearAllAndStopResume
  \/ RestartScanner

SpecPeers == Init /\ [][NextPeers]_vars

\* the chat: local queries, relay responses and status polls
NextChat ==
  \/ SendMessage
  \/ ReceiveResponse
  \/ NetChange
  \/ PollReturn

SpecChat == Init /\ [][NextChat]_vars

\* the broadcast scheduler
NextSched ==
  \/ UserBroadcast
  \/ Tick
  \/ StartBroadcasting
  \/ StopBroadcasting
  \/ NetChange
  \/ ClearAllAndStop
  \/ ClearAllAndStopResume
  \/ RestartScanner

SpecSched == Init /\ [][NextSched]_vars

\* a device that broadcasts its own messages and hears frames under the id
\* of the first one
NextEcho ==
  \/ UserBroadcast
  \/ DeliverEcho
  \/ NetChange

SpecEcho == Init /\ [][NextEcho]_vars

\* two devices in range of each other over a lossy medium: this device
\* starts offline and sends queries, the other one relays
InitMesh ==
  /\ InitDevice(FALSE)
  /\ msg = NoMsg
  /\ order = << >>
  /\ peer \in {NewDevice(online) : online \in BOOLEAN}
  /\ ticks = NoTicks

NextMesh ==
  \/ SendMessage
  \/ NetChange
  \/ PollReturn
  \/ MeshTick
  \/ PeerTick
  \/ PeerRelayReturn
  \/ PeerNetChange

SpecMesh == InitMesh /\ [][NextMesh]_vars

\* the same two devices when the medium delivers every chunk, the timers
\* keep ticking and a backend call returns
NextMeshLive ==
  \/ SendMessage
  \/ NetChange
  \/ PollReturn
  \/ MeshTickWith(TRUE)
  \/ PeerTickWith(TRUE)
  \/ PeerRelayReturn
  \/ PeerNetChange

SpecMeshLive ==
  /\ InitMesh
  /\ [][NextMeshLive]_vars
  /\ WF_ticks(OwnTimerFires)
  /\ WF_ticks(PeerTimerFires)
  /\ WF_vars(PeerRelayReturn)

(* ------------------- claims of the codec specification ----------------- *)
\* the entry the message of the codec specification is collected in
CodecHeld == CodecId \in DOMAIN masterState
CodecEntry == masterState[CodecId]
CodecComplete == CodecHeld /\ CodecEntry.isComplete
CodecFragments == 1..ChunkCount(Len(msg.bytes))

\* a byte message that is the UTF-8 encoding of a text without NUL: in the
\* model, non-zero ASCII bytes only
IsPlainText(bytes) == \A k \in 1..Len(bytes) : bytes[k] \in 1..127

C10_DuplicateIdempotence ==
  /\ (order # << >>) <=> CodecHeld
  /\ CodecHeld =>
       /\ DOMAIN CodecEntry.chunks = Range(order)
       /\ \A k \in DOMAIN CodecEntry.chunks :
            CodecEntry.chunks[k] = EncodeMessageToChunks(msg.bytes, CodecId, msg.isAck)[k]
       /\ CodecEntry.isComplete <=> Range(order) = CodecFragments
       /\ CodecEntry.fullMessage =
            IF Range(order) = CodecFragments
            THEN StripNul(Utf8Decode(msg.bytes)) ELSE << >>
       /\ handed[CodecId] = IF CodecEntry.isComplete /\ ~msg.isAck THEN 1 ELSE 0

\* a two-fragment message completes after MaxDupes re-deliveries of its
\* first fragment
C10_Witness ==
  /\ CodecComplete
  /\ Cardinality(CodecFragments) >= 2
  /\ Dupes(order) = MaxDupes
  /\ order[1] = order[2]

(* ---------------- claims of the reassembly specification --------------- *)
\* the device receives the frame c in this step
Receives(c) == resetPc = "idle" /\ Apply(HandleIncomingChunk(Cur, c))

\* c arrives for an entry that is Complete
LateFor(c) == c.id \in DOMAIN masterState /\ masterState[c.id].isComplete

\* what the relay layer and the incident gateway hold
RelayLayer ==
  <<handed, broadcastQueue, relayCalls, storeCalls, processedRelayQueries,
    rebroadcastedQueryIds, ownMessageIds, pendingQueries, answersAdded>>

\* everything but the set of ids seen on the air, which every foreign frame
\* is added to (BleContext.tsx:156-157)
AllButReceived ==
  <<masterState, broadcastQueue, masterInterval, broadcastCursor, ownMessageIds,
    processedRelayQueries, rebroadcastedQueryIds, hasInternet, listenerHasInternet,
    resetPc, relayCalls, storeCalls, pendingQueries, polls, answersAdded, handed,
    backendCalled, responsesEnqueued, queryRebroadcasts, lastAnswer, sentLog>>

OwnQueryMessages(q) ==
  {id \in ownMessageIds \cap DOMAIN masterState :
     masterState[id].fullMessage = Stringify(Query(q))}

\* the foreign messages carrying the relay message m that were handed on
HandedCarrying(m) ==
  {id \in (DOMAIN masterState) \ ownMessageIds :
     /\ masterState[id].isComplete
     /\ ~masterState[id].isAck
     /\ masterState[id].fullMessage = Stringify(m)
     /\ handed[id] = 1}

\* C3: between resets an offline device enqueues a query id for rebroadcast
\* at most once, however many Query messages carrying it are received: the
\* first receipt records the id in rebroadcastedQueryIds, and the device
\* holds at most one own message with the query.
C3_SingleShotRelay ==
  \A q \in QueryIds :
    /\ queryRebroadcasts[q] <= 1
    /\ queryRebroadcasts[q] = 1 <=> QueryKey(q) \in rebroadcastedQueryIds
    /\ Cardinality(OwnQueryMessages(q)) = queryRebroadcasts[q]

\* two Query messages with the same query id, under different message ids,
\* were handed to the relay layer while offline; one rebroadcast was enqueued
C3_Witness ==
  \E q \in QueryIds :
    /\ Cardinality(HandedCarrying(Query(q))) >= 2
    /\ ~listenerHasInternet
    /\ queryRebroadcasts[q] = 1
    /\ Cardinality(OwnQueryMessages(q)) = 1

\* C6: between resets a device calls the backend at most once for a query id
\* and enqueues at most one Response for it.
C6_AtMostOnePerQuery ==
  \A q \in QueryIds : backendCalled[q] <= 1 /\ responsesEnqueued[q] <= 1

Carried(c) == Parse(StripNul(Utf8Decode(c.data)))

\* c completes a foreign message the device does not hold yet, so the
\* Response it carries is received by the relay layer in this step
ReceivesResponse(c) ==
  /\ c.id \notin ownMessageIds
  /\ c.id \notin DOMAIN masterState
  /\ Receives(c)

\* C4 as stated: for a pending query, the first received Response carrying
\* its id adds exactly one answer and removes the id from the pending set.
C4_AnyResponseAnswers ==
  [][\A c \in ResponseChunks :
       (ReceivesResponse(c) /\ Carried(c).query_id \in pendingQueries) =>
         /\ answersAdded'[Carried(c).query_id] = answersAdded[Carried(c).query_id] + 1
         /\ Carried(c).query_id \notin pendingQueries']_vars

\* C4: a received Response that carries a non-empty response text and the id
\* of a pending query adds exactly one answer and removes the id from the
\* pending set; a Response without a response text, or one whose query id is
\* not pending (a later Response included), adds no answer and leaves the
\* pending set as it is.
C4_ExactlyOnceDelivery ==
  [][\A c \in ResponseChunks :
       ReceivesResponse(c) =>
         IF Carried(c).response /\ Carried(c).query_id \in pendingQueries
         THEN /\ answersAdded' = [answersAdded EXCEPT ![Carried(c).query_id] = @ + 1]
              /\ pendingQueries' = pendingQueries \ {Carried(c).query_id}
         ELSE UNCHANGED <<answersAdded, pendingQueries>>]_vars

\* an offline device has its query answered by the first of two Responses
\* with text that arrived under different message ids; no poll was involved
C4_Witness ==
  \E q \in QueryIds :
    /\ Cardinality(HandedCarrying(Response(q, TRUE))) >= 2
    /\ ~hasInternet
    /\ polls[q] = 0
    /\ answersAdded[q] = 1
    /\ q \notin pendingQueries

\* C5: whatever the interleaving of relay Responses and status polls, at
\* most one answer is ever added for a query id.
C5_AtMostOneAnswer == \A q \in QueryIds : answersAdded[q] <= 1

(* ----------------- claims of the scheduler specification --------------- *)
\* the timer callback runs in this step
Ticks == masterInterval /\ Apply(TickStep(Cur))

\* the chunk the next tick sends is the last one of its entry
AtLastChunk ==
  /\ broadcastQueue # << >>
  /\ broadcastCursor.queueIndex < Len(broadcastQueue)
  /\ broadcastCursor.chunkIndex + 1 =
       Len(broadcastQueue[broadcastCursor.queueIndex + 1].chunks)

\* C8: while the queue membership does not change, every queued message has
\* a chunk sent within any window of T consecutive ticks, T being the total
\* number of chunks queued (sentLog holds the ids of the last T chunks sent
\* since the membership last changed).
C8_SchedulerFairness ==
  (broadcastQueue # << >> /\ Len(sentLog) = TotalChunks(broadcastQueue)) =>
    \A id \in QueueIds(broadcastQueue) : id \in Range(sentLog)

\* three messages, of one and of two chunks, with a full window of ticks
\* behind them
C8_Witness ==
  /\ Len(broadcastQueue) = 3
  /\ \E k \in 1..3 : Len(broadcastQueue[k].chunks) = 2
  /\ \E k \in 1..3 : Len(broadcastQueue[k].chunks) = 1
  /\ Len(sentLog) = TotalChunks(broadcastQueue)
  /\ masterInterval

\* C9 as stated: an entry is removed from the queue once the scheduler has
\* sent all of its chunks.
C9_RemovedWhenSent ==
  [][(AtLastChunk /\ Ticks) =>
       broadcastQueue[broadcastCursor.queueIndex + 1].id
         \notin QueueIds(broadcastQueue')]_vars

\* C9: a tick never takes an entry off the queue: after the last chunk of an
\* entry the cursor moves to the first chunk of the next entry, wrapping to
\* the first entry, and the entry is sent again on the next traversal; a
\* tick stops the scheduler only when the queue is already empty.
C9_TickKeepsQueue ==
  [][Ticks =>
       /\ broadcastQueue' = broadcastQueue
       /\ broadcastQueue # << >> => masterInterval'
       /\ AtLastChunk =>
            broadcastCursor' =
              [queueIndex |-> (broadcastCursor.queueIndex + 1) % Len(broadcastQueue),
               chunkIndex |-> 0]]_vars

\* a queue of two messages was traversed completely and the cursor is back
\* at its start, with both messages still queued
C9_Witness ==
  /\ Len(broadcastQueue) = 2
  /\ Len(sentLog) = TotalChunks(broadcastQueue)
  /\ broadcastCursor = ZeroCursor
  /\ sentLog[Len(sentLog)] = broadcastQueue[2].id
  /\ masterInterval

(* ------------------------------ claim C11 ------------------------------ *)
\* the entry of id is Complete
IsComplete(ms, id) == id \in DOMAIN ms /\ ms[id].isComplete

\* in this step the entry of id becomes Complete through reassembly: by a
\* received fragment, not by the acknowledgement state the incident gateway
\* stores
CompletesByReassembly(id) ==
  /\ ~IsComplete(masterState, id)
  /\ IsComplete(masterState', id)
  /\ storeCalls' = storeCalls

\* C11 as stated, for well-formed fragment sets: when an entry becomes
\* Complete through reassembly of the fragments 1..total, its message is
\* handed to the relay layer exactly once, whatever its role.
C11_HandedWhateverRole ==
  [][\A id \in ReasmIds :
       (/\ CompletesByReassembly(id)
        /\ DOMAIN masterState'[id].chunks = 1..masterState'[id].totalChunks)
         => handed'[id] = handed[id] + 1]_vars

\* C11: when an entry becomes Complete through reassembly in the request
\* role, holding the fragments 1..total, its message is handed to the relay
\* layer exactly once in that step and never again for that id; an entry that
\* becomes Complete in the ack role is not handed on, and neither is one
\* whose fragment numbers are not 1..total (the handler throws after marking
\* it Complete).
C11_HandedOnceIfRequest ==
  [][\A id \in ReasmIds :
       /\ handed'[id] <= 1
       /\ CompletesByReassembly(id) =>
            handed'[id] = handed[id] +
              (IF /\ ~masterState'[id].isAck
                  /\ DOMAIN masterState'[id].chunks = 1..masterState'[id].totalChunks
               THEN 1 ELSE 0)
       /\ (IsComplete(masterState, id) /\ IsComplete(masterState', id)) =>
            handed'[id] = handed[id]]_vars

\* a two-chunk request-role message was reassembled and handed on once
C11_Witness ==
  \E id \in ReasmIds :
    /\ IsComplete(masterState, id)
    /\ ~masterState[id].isAck
    /\ masterState[id].fullMessage = LongText
    /\ DOMAIN masterState[id].chunks = 1..2
    /\ handed[id] = 1

(* ------------------------------ claim C12 ------------------------------ *)
\* everything but the backend calls in flight
AllButRelayCalls ==
  <<masterState, broadcastQueue, masterInterval, broadcastCursor, ownMessageIds,
    receivedMessageIds, processedRelayQueries, rebroadcastedQueryIds, hasInternet,
    listenerHasInternet, resetPc, storeCalls, pendingQueries, polls, answersAdded,
    handed, backendCalled, responsesEnqueued, queryRebroadcasts, lastAnswer, sentLog>>

\* a backend call returns in this step and no Response is enqueued for it:
\* the call failed
CallFails ==
  /\ relayCalls' # relayCalls
  /\ relayCalls' \subseteq relayCalls
  /\ responsesEnqueued' = responsesEnqueued

\* the backend call for q of this reset period has failed
FailedCall(q) ==
  /\ q \in processedRelayQueries
  /\ backendCalled[q] = 1
  /\ responsesEnqueued[q] = 0
  /\ \A call \in relayCalls : call.q # q

\* C12: a backend call that fails while relaying online changes nothing but
\* the set of calls in flight: no Response and no Query is enqueued, the
\* query id is not added to rebroadcastedQueryIds (it stays in
\* processedRelayQueries), the scheduler, the listener and the reset position
\* are as before, so later frames are processed as before.
C12_FailureContained ==
  [][CallFails => UNCHANGED AllButRelayCalls]_vars

\* the backend call for a query failed; the query was received under two
\* message ids and handed on both times, and nothing was enqueued
C12_Witness ==
  \E q \in QueryIds :
    /\ FailedCall(q)
    /\ Cardinality(HandedCarrying(Query(q))) = 2
    /\ listenerHasInternet
    /\ QueryKey(q) \notin rebroadcastedQueryIds
    /\ broadcastQueue = << >>
    /\ resetPc = "idle"

(* ------------------------------ claim C13 ------------------------------ *)
\* a foreign message carrying a Response for q is handed to the relay layer
\* in this step: the Response is received
ResponseReceived(q) ==
  \E id \in MsgIds :
    /\ handed'[id] = handed[id] + 1
    /\ id \in DOMAIN masterState'
    /\ masterState'[id].fullMessage \in {Stringify(Response(q, b)) : b \in BOOLEAN}

\* a Response for q was received before, in this reset period
ResponseSeen(q) ==
  \E b \in BOOLEAN : HandedCarrying(Response(q, b)) # {}

\* one message was put at the end of the queue in this step, an own message
\* carrying a Response for q
ResponseEnqueued(q) ==
  /\ Len(broadcastQueue') = Len(broadcastQueue) + 1
  /\ SubSeq(broadcastQueue', 1, Len(broadcastQueue)) = broadcastQueue
  /\ LET id == broadcastQueue'[Len(broadcastQueue')].id
     IN /\ id \in ownMessageIds'
        /\ masterState'[id].fullMessage \in {Stringify(Response(q, b)) : b \in BOOLEAN}

\* C13: a device without connectivity re-enqueues a received Response for q
\* on the first receipt and on no later one; a device with connectivity
\* never re-enqueues a received Response.
C13_ResponseRelayedOnce ==
  [][\A q \in QueryIds :
       ResponseReceived(q) =>
         IF ~hasInternet /\ ~ResponseSeen(q)
         THEN ResponseEnqueued(q)
         ELSE broadcastQueue' = broadcastQueue]_vars

(* ------------------------------ claim C14 ------------------------------ *)
\* the device regains connectivity in this step
Reconnects == ~hasInternet /\ hasInternet'

\* the status poll of query q returns in this step
PollReturns(q) == polls'[q] = polls[q] - 1

\* C14: when the device regains connectivity, one status poll is started
\* for every pending query and the pending queries stay as they are; when
\* the poll of q returns, either q is reported completed with a response,
\* and its answer is added and q is no longer pending, or q stays as it
\* was; every other query keeps its answers and its pending status.
C14_Reconciliation ==
  [][/\ Reconnects =>
          /\ pendingQueries' = pendingQueries
          /\ answersAdded' = answersAdded
          /\ \A q \in QueryIds :
               polls'[q] = polls[q] + (IF q \in pendingQueries THEN 1 ELSE 0)
     /\ \A q \in QueryIds :
          PollReturns(q) =>
            /\ \/ /\ answersAdded'[q] = answersAdded[q] + 1
                  /\ pendingQueries' = pendingQueries \ {q}
               \/ /\ answersAdded'[q] = answersAdded[q]
                  /\ pendingQueries' = pendingQueries
            /\ \A p \in QueryIds \ {q} : answersAdded'[p] = answersAdded[p]]_vars

\* a query sent offline was polled after the reconnection and its answer was
\* added by the poll: no Response was ever received over the radio
C14_Witness ==
  \E q \in QueryIds :
    /\ hasInternet
    /\ q \notin pendingQueries
    /\ answersAdded[q] = 1
    /\ polls[q] = 0
    /\ \A id \in MsgIds : handed[id] = 0
    /\ \E id \in ownMessageIds : masterState[id].fullMessage = Stringify(Query(q))

(* ------------------- claims of the echo specification ------------------ *)
\* the frame delivered last carries the ack flag and the id of a message this
\* device sent
OwnReplyDelivered ==
  /\ order # << >>
  /\ order[1].isAck
  /\ order[1].id \in ownMessageIds

\* C15: once the device that sent message X has received an acknowledgement
\* fragment carrying X, its entry for X is in the ack role with the ack's
\* declared total, and holds the fragment or is complete.
C15_ReplySwitchesOwnEntry ==
  OwnReplyDelivered =>
    LET c == order[1]
        entry == masterState[c.id]
    IN /\ entry.isAck
       /\ entry.totalChunks = c.totalChunks
       /\ entry.isComplete \/ c.chunkNumber \in DOMAIN entry.chunks

(* ------------------------------ claim C17 ------------------------------ *)
\* every table and set of the protocol is empty and no timer is scheduled
AllCleared ==
  /\ masterState = << >>
  /\ broadcastQueue = << >>
  /\ ownMessageIds = {}
  /\ receivedMessageIds = {}
  /\ processedRelayQueries = {}
  /\ rebroadcastedQueryIds = {}
  /\ ~masterInterval

\* C17: when clearAllAndStop has done its clearing, every table and set is
\* empty and no timer is scheduled, and this stays so in every step that is
\* not the receipt of a frame (this device sends nothing of its own accord):
\* the return of a backend call that was in flight changes none of it.
C17_ResetAtomic ==
  [][/\ (resetPc = "awaitStop" /\ resetPc' = "restart") => AllCleared'
     /\ (AllCleared /\ receivedMessageIds' = receivedMessageIds) => AllCleared']_vars

(* ------------------------------ claim C18 ------------------------------ *)
\* the step in which clearAllAndStop clears the protocol state
Clears == resetPc = "awaitStop" /\ resetPc' = "restart"

\* C18: in every step but the clearing of clearAllAndStop, the four
\* deduplication sets keep all their elements and the reassembly table keeps
\* all its ids; the clearing empties all of them.
C18_MonotonicProtocolState ==
  [][IF Clears
     THEN /\ processedRelayQueries' = {}
          /\ rebroadcastedQueryIds' = {}
          /\ ownMessageIds' = {}
          /\ receivedMessageIds' = {}
          /\ masterState' = << >>
     ELSE /\ processedRelayQueries \subseteq processedRelayQueries'
          /\ rebroadcastedQueryIds \subseteq rebroadcastedQueryIds'
          /\ ownMessageIds \subseteq ownMessageIds'
          /\ receivedMessageIds \subseteq receivedMessageIds'
          /\ DOMAIN masterState \subseteq DOMAIN masterState']_vars

\* the sets and the table hold something while the device goes on: a query
\* was received, processed and answered, and a Response was received after it
C18_Witness ==
  /\ processedRelayQueries # {}
  /\ ownMessageIds # {}
  /\ Cardinality(receivedMessageIds) >= 2
  /\ Cardinality(DOMAIN masterState) >= 3
  /\ resetPc = "idle"

(* ------------------------------ claim C19 ------------------------------ *)
\* a foreign message carrying the Query q completes and is handed to the
\* relay layer in this step
QueryReceived(q) ==
  \E id \in MsgIds :
    /\ handed'[id] = handed[id] + 1
    /\ id \in DOMAIN masterState'
    /\ masterState'[id].fullMessage = Stringify(Query(q))

\* C19: when a Query the device has neither processed nor rebroadcast
\* completes, the branch taken is that of the device's connectivity at that
\* moment: with connectivity the backend call is started and nothing is
\* enqueued, without it the Query is rebroadcast and no call is started.
C19_BranchOnCurrentConnectivity ==
  [][\A q \in QueryIds :
       (/\ QueryReceived(q)
        /\ q \notin processedRelayQueries
        /\ QueryKey(q) \notin rebroadcastedQueryIds)
       => IF hasInternet
          THEN /\ backendCalled'[q] = backendCalled[q] + 1
               /\ broadcastQueue' = broadcastQueue
          ELSE /\ backendCalled'[q] = backendCalled[q]
               /\ QueryKey(q) \in rebroadcastedQueryIds']_vars

(* ------------------- claims of the mesh specification ------------------ *)
\* the offline device has just sent the query q: it is pending and queued,
\* and the device in range has connectivity and has heard nothing yet
QuerySentInRange(q) ==
  /\ ~hasInternet
  /\ q \in pendingQueries
  /\ \E i \in 1..Len(broadcastQueue) :
       masterState[broadcastQueue[i].id].fullMessage = Stringify(Query(q))
  /\ peer.hasInternet
  /\ peer.masterState = << >>

\* the callback registered by the chat was invoked for q and added the answer
CallbackInvoked(q) == answersAdded[q] > 0

\* a backend call for q returned without an answer
BackendFailed(q) ==
  /\ peer.backendCalled[q] > peer.responsesEnqueued[q]
  /\ \A call \in peer.relayCalls : call.q # q

\* C16: when an offline device has sent a query while a device with
\* connectivity is in range, then, with timers that keep ticking and a
\* medium that delivers every chunk, the response callback of the sender is
\* invoked for that query, unless the relaying device loses connectivity,
\* the sender regains it, or the backend call fails.
C16_RelayLiveness ==
  \A q \in QueryIds :
    QuerySentInRange(q) ~>
      (CallbackInvoked(q) \/ ~peer.hasInternet \/ hasInternet \/ BackendFailed(q))

\* the device this query was sent from
Originated(q) == q \in pendingQueries \/ answersAdded[q] > 0

\* C20: the device a query was sent from never re-enqueues that query,
\* whatever rebroadcast of it by a peer it receives.
C20_OriginatorKeepsQuiet ==
  \A q \in QueryIds : Originated(q) => queryRebroadcasts[q] = 0

(* ------------------------------ claim C21 ------------------------------ *)
\* the queued entry is an acknowledgement or carries a RELAY_RESPONSE
IsResponseOrAck(e) ==
  /\ e.id \in DOMAIN masterState
  /\ \/ masterState[e.id].isAck
     \/ Parse(masterState[e.id].fullMessage).type = "RELAY_RESPONSE"

\* C21: when the device comes online, the queued RELAY_RESPONSE and
\* acknowledgement messages are kept in their order and every other entry
\* is removed; the scheduler is stopped only if the queue is then empty.
C21_OnlineKeepsResponses ==
  [][Reconnects =>
       /\ broadcastQueue' = SelectSeq(broadcastQueue, IsResponseOrAck)
       /\ (masterInterval /\ ~masterInterval') => broadcastQueue' = << >>]_vars

(* ------------------------------ claim C22 ------------------------------ *)
\* C22: when a fragment with the ack flag arrives for an entry that is not
\* Complete, a request-role entry becomes an ack entry that holds this
\* fragment alone and has the fragment's declared total; an entry that is
\* already in the ack role stays in it and keeps its total and every fragment
\* it has collected.
C22_AckSwitchOnce ==
  [][\A c \in InChunks :
       (/\ c.isAck
        /\ c.id \in DOMAIN masterState
        /\ ~masterState[c.id].isComplete
        /\ Receives(c))
       => LET e == masterState[c.id]
              e2 == masterState'[c.id]
          IN /\ e2.isAck
             /\ ~e.isAck => /\ e2.totalChunks = c.totalChunks
                            /\ e2.chunks = Put(<< >>, c.chunkNumber, c)
             /\ e.isAck => /\ e2.totalChunks = e.totalChunks
                           /\ \A k \in DOMAIN e.chunks :
                                k \in DOMAIN e2.chunks /\ e2.chunks[k] = e.chunks[k]]_vars

\* an ack entry of two fragments holds both: the second did not reset it
C22_Witness ==
  \E id \in DOMAIN masterState :
    /\ masterState[id].isAck
    /\ masterState[id].totalChunks = 2
    /\ DOMAIN masterState[id].chunks = {1, 2}
    /\ masterState[id].fullMessage = LongText

(* ------------------------------ claim C23 ------------------------------ *)
\* the own messages of the device that carry a Response for q
OwnResponseMessages(q) ==
  {id \in ownMessageIds \cap DOMAIN masterState :
     masterState[id].fullMessage \in {Stringify(Response(q, b)) : b \in BOOLEAN}}

\* a Response for q is handed to an offline listener that has enqueued no
\* Response for q, and the step leaves no rebroadcast of it
ResponseSuppressed(q) ==
  /\ ResponseReceived(q)
  /\ ~listenerHasInternet
  /\ OwnResponseMessages(q) = {}
  /\ OwnResponseMessages(q)' = {}

\* a Query for q, neither processed nor rebroadcast before, is handed on, and
\* the step neither calls the backend nor rebroadcasts it
QuerySuppressed(q) ==
  /\ QueryReceived(q)
  /\ q \notin processedRelayQueries
  /\ queryRebroadcasts[q] = 0
  /\ backendCalled'[q] = backendCalled[q]
  /\ queryRebroadcasts'[q] = 0

\* C23 as stated: whatever the query ids, the rebroadcast of a Query never
\* suppresses the rebroadcast of a Response, and the rebroadcast of a
\* Response never suppresses the processing or the rebroadcast of a Query.
C23_NamespacesDisjoint ==
  [][\A q \in AllQueryIds : ~ResponseSuppressed(q) /\ ~QuerySuppressed(q)]_vars

\* C23: for the query ids sendMessage generates, which do not begin with
\* `response-`: a Response is rebroadcast whatever Queries with such ids were
\* rebroadcast, and a Query with such an id is processed or rebroadcast
\* whatever Responses were rebroadcast.
C23_GeneratedIdsDisjoint ==
  [][/\ (\A f \in ForeignIds : queryRebroadcasts[f] = 0)
          => \A r \in AllQueryIds : ~ResponseSuppressed(r)
     /\ \A q \in QueryIds : ~QuerySuppressed(q)]_vars

\* an offline device has rebroadcast both the Query and the Response of one
\* generated query id
C23_Witness ==
  \E q \in QueryIds :
    /\ ~listenerHasInternet
    /\ queryRebroadcasts[q] = 1
    /\ QueryKey(q) \in rebroadcastedQueryIds
    /\ RespKey(q) \in rebroadcastedQueryIds
    /\ OwnQueryMessages(q) # {}
    /\ OwnResponseMessages(q) # {}

(* ------------------------------ claim C24 ------------------------------ *)
\* the report with message id x is forwarded to the store in this step
Forwards(x) == x \notin storeCalls /\ x \in storeCalls'

\* the store call for x returns with the outcome in this step
StoreReturns(x, outcome) ==
  x \in storeCalls /\ Cur' = StoreContinuation(Cur, x, outcome)

\* the queue holds x with fragments that carry the ack flag and the id x
AckQueued(x) ==
  \E i \in 1..Len(broadcastQueue) :
    /\ broadcastQueue[i].id = x
    /\ Len(broadcastQueue[i].chunks) > 0
    /\ \A k \in 1..Len(broadcastQueue[i].chunks) :
         broadcastQueue[i].chunks[k].isAck /\ broadcastQueue[i].chunks[k].id = x

\* C24: a report is forwarded to the store only in the step that completes
\* its reassembly and hands it on, which happens once for a message id
\* between resets; when the store call returns, an acknowledgement with the
\* ack flag and the same message id is in the queue and the entry of the id
\* is a Complete ack entry; when the call throws, the queue and the table
\* are left as they were.
C24_ReportGateway ==
  [][\A x \in MsgIds :
       /\ Forwards(x) =>
            /\ handed[x] = 0 /\ handed'[x] = 1
            /\ masterState'[x].isComplete
            /\ Parse(masterState'[x].fullMessage).type = "INCIDENT_REPORT"
       /\ \A outcome \in {"ok", "fail"} :
            StoreReturns(x, outcome) =>
              /\ AckQueued(x)'
              /\ masterState'[x].isComplete /\ masterState'[x].isAck
              /\ masterState'[x].fullMessage = AckText(outcome = "ok")
       /\ StoreReturns(x, "throw") =>
            /\ broadcastQueue' = broadcastQueue
            /\ masterState' = masterState]_vars

\* the report was handed on once, its store call has returned, and the
\* acknowledgement is queued under the id of the report
C24_Witness ==
  \E x \in ReasmIds :
    /\ handed[x] = 1
    /\ x \notin storeCalls
    /\ x \in DOMAIN masterState
    /\ masterState[x].isComplete /\ masterState[x].isAck
    /\ masterState[x].fullMessage = AckText(TRUE)
    /\ AckQueued(x)

(* ------------------------------ claim C25 ------------------------------ *)
\* startBroadcasting is called in this step while the scheduler is running
RestartsScheduler == masterInterval /\ Cur' = StartMasterBroadcastLoop(Cur)

\* the chunk the next tick transmits, if any
NextChunk == TickChunks(Cur)

\* C25 as stated: startBroadcasting on a running scheduler leaves it
\* running and changes neither the cursor nor the chunk the next tick
\* transmits.
C25_StartIdempotent ==
  [][RestartsScheduler =>
       /\ masterInterval'
       /\ broadcastCursor' = broadcastCursor
       /\ NextChunk' = NextChunk]_vars

\* C25: startBroadcasting on a running scheduler leaves it running and the
\* queue unchanged, and resets the cursor to (0,0): the next tick transmits
\* the first chunk of the first entry of the queue.
C25_StartResetsCursor ==
  [][RestartsScheduler =>
       /\ masterInterval'
       /\ broadcastQueue' = broadcastQueue
       /\ broadcastCursor' = ZeroCursor
       /\ (Len(broadcastQueue) > 0 /\ Len(broadcastQueue[1].chunks) > 0)
            => NextChunk' = {broadcastQueue[1].chunks[1]}]_vars

\* the scheduler runs and its cursor has left the first chunk of the first
\* entry: a restart moves it
C25_Witness ==
  /\ masterInterval
  /\ broadcastCursor # ZeroCursor
  /\ Len(broadcastQueue) >= 2
  /\ NextChunk # {broadcastQueue[1].chunks[1]}

(* ------------------------------ claim C26 ------------------------------ *)
\* stopBroadcasting is called in this step
StopsScheduler == Cur' = StopMasterBroadcastLoop(Cur)

\* the interval callback hands a chunk to the radio in this step
SendsChunk == sentLog' # << >> /\ sentLog' # sentLog

\* C26: stopping the scheduler cancels the timer and resets the cursor to
\* (0,0), and leaves the broadcast queue, the reassembly table and the four
\* dedup sets unchanged; while the timer is cancelled no step sends a chunk.
C26_StopFrame ==
  [][/\ StopsScheduler =>
          /\ ~masterInterval'
          /\ broadcastCursor' = ZeroCursor
          /\ UNCHANGED <<broadcastQueue, masterState, ownMessageIds,
                         receivedMessageIds, processedRelayQueries,
                         rebroadcastedQueryIds>>
     /\ SendsChunk => masterInterval]_vars

\* the scheduler was stopped by the user: the timer is cancelled while
\* messages are queued and no reset is under way
C26_Witness ==
  /\ ~masterInterval
  /\ resetPc = "idle"
  /\ broadcastCursor = ZeroCursor
  /\ Len(broadcastQueue) >= 2
  /\ ownMessageIds # {}
  /\ masterState # << >>

(* ------------------------------ claim C27 ------------------------------ *)
\* the cursor, an index beyond the end taken as 0 (BleContext.tsx:524, 533)
CursorEntry ==
  IF broadcastCursor.queueIndex >= Len(broadcastQueue) THEN 0
  ELSE broadcastCursor.queueIndex
CursorChunk ==
  IF broadcastCursor.chunkIndex >= Len(broadcastQueue[CursorEntry + 1].chunks) THEN 0
  ELSE broadcastCursor.chunkIndex

\* C27: a tick on an empty queue sends nothing and stops the scheduler; a
\* tick on a queue whose selected entry has chunks sends exactly one chunk,
\* the one at chunkIndex of the entry at queueIndex, leaves the queue and
\* the timer as they are, and moves the cursor one chunk on, to the first
\* chunk of the next entry after the last chunk of an entry, and to the first
\* entry after the last entry.
C27_OneChunkPerTick ==
  [][Ticks =>
       IF Len(broadcastQueue) = 0
       THEN /\ ~masterInterval'
            /\ NextChunk = {}
            /\ sentLog' = << >>
       ELSE LET entry == broadcastQueue[CursorEntry + 1]
                n == Len(entry.chunks)
            IN n > 0 =>
                 /\ NextChunk = {entry.chunks[CursorChunk + 1]}
                 /\ sentLog' = LastN(Append(sentLog, entry.id),
                                     TotalChunks(broadcastQueue))
                 /\ masterInterval'
                 /\ broadcastQueue' = broadcastQueue
                 /\ broadcastCursor' =
                      IF CursorChunk + 1 < n
                      THEN [queueIndex |-> CursorEntry, chunkIndex |-> CursorChunk + 1]
                      ELSE [queueIndex |-> (CursorEntry + 1) % Len(broadcastQueue),
                            chunkIndex |-> 0]]_vars

\* ticks have sent the chunks of the first entry and moved the cursor to the
\* second chunk of the second entry
C27_Witness ==
  /\ masterInterval
  /\ Len(broadcastQueue) = 2
  /\ broadcastCursor = [queueIndex |-> 1, chunkIndex |-> 1]
  /\ Len(sentLog) >= 2
  /\ sentLog[Len(sentLog)] = broadcastQueue[2].id

(* ------------------------------ claim C28 ------------------------------ *)
\* the message ids the device holds
HeldIds == (DOMAIN masterState) \cup ownMessageIds \cup QueueIds(broadcastQueue)

\* C28: relayQuery called while the device has connectivity returns the
\* state it was called in; called offline it appends one entry to the queue,
\* under an id the device did not hold, which is added to ownMessageIds and
\* carries the Query, and it leaves the other dedup sets and the entries of
\* the other ids as they were.
C28_RelayQueryOfflineOnly ==
  \A q \in QueryIds :
    LET s == RelayQuery(Cur, q) IN
    IF hasInternet THEN s = Cur
    ELSE ~s.overflow =>
           \E id \in MsgIds \ HeldIds :
             /\ s.ownMessageIds = ownMessageIds \cup {id}
             /\ Len(s.broadcastQueue) = Len(broadcastQueue) + 1
             /\ SubSeq(s.broadcastQueue, 1, Len(broadcastQueue)) = broadcastQueue
             /\ s.broadcastQueue[Len(s.broadcastQueue)].id = id
             /\ s.masterState[id].fullMessage = Stringify(Query(q))
             /\ \A other \in DOMAIN masterState : s.masterState[other] = masterState[other]
             /\ s.receivedMessageIds = receivedMessageIds
             /\ s.processedRelayQueries = processedRelayQueries
             /\ s.rebroadcastedQueryIds = rebroadcastedQueryIds

\* an offline device holds a queued own message with a Query it has neither
\* received nor sent from the chat: relayQuery was called offline; the
\* device has also received messages of others
C28_Witness ==
  \E q \in QueryIds :
    /\ ~hasInternet
    /\ queryRebroadcasts[q] = 0
    /\ q \notin pendingQueries
    /\ \E id \in OwnQueryMessages(q) : id \in QueueIds(broadcastQueue)
    /\ receivedMessageIds # {}

(* ------------------------------ claim C29 ------------------------------ *)
\* the age of a last-seen timestamp
Age(lastSeen) == presence.now - lastSeen

\* the peer maps after a read of the active peer count
AfterRead == GetActivePeerCount(Cur).presence

ReceivesRaw(raw) ==
  resetPc = "idle" /\ order' = <<Len(raw)>> /\ Cur' = HandleRawFrame(Cur, raw)

\* C30: the receipt of a frame that does not decode changes neither the
\* reassembly table, the seen-id set, the peer maps, the queue and its
\* scheduler, nor any dedup set or call in flight: the handler returns the
\* state it was called in.
C30_UndecodableDropped ==
  [][\A raw \in TruncatedFrames :
       ReceivesRaw(raw) =>
         UNCHANGED <<masterState, receivedMessageIds, presence, broadcastQueue,
                     masterInterval, broadcastCursor, ownMessageIds,
                     processedRelayQueries, rebroadcastedQueryIds,
                     relayCalls, storeCalls, handed>>]_vars

\* a frame cut short was the last one received by a device that holds
\* entries, seen ids, peer entries, a queue and rebroadcast keys
C30_Witness ==
  /\ Len(order) = 1
  /\ order[1] \in {Len(raw) : raw \in TruncatedFrames}
  /\ order[1] >= HEADER_LEN
  /\ masterState # << >>
  /\ receivedMessageIds # {}
  /\ presence.peerActivity # << >>
  /\ presence.peerHeartbeats # << >>
  /\ broadcastQueue # << >>
  /\ rebroadcastedQueryIds # {}

(* ------------------------------ claim C31 ------------------------------ *)
\* C31: a Complete entry holds a fragment for every sequence number of
\* 1..total and for no other, so that reassembly reads no missing fragment.
C31_CompleteHoldsAll ==
  \A id \in DOMAIN masterState :
    masterState[id].isComplete =>
      DOMAIN masterState[id].chunks = 1..masterState[id].totalChunks

(* ------------------------------ claim C32 ------------------------------ *)
\* C32: every fragment stored in an entry carries the role and the total of
\* the entry.
C32_FragmentsMatchEntry ==
  \A id \in DOMAIN masterState :
    \A k \in DOMAIN masterState[id].chunks :
      /\ masterState[id].chunks[k].isAck = masterState[id].isAck
      /\ masterState[id].chunks[k].totalChunks = masterState[id].totalChunks

(* ------------------------------ claim C33 ------------------------------ *)
\* the messages device d sent itself that carry the relay message m
SentCarrying(d, m) ==
  {id \in d.ownMessageIds \cap DOMAIN d.masterState :
     d.masterState[id].fullMessage = Stringify(m)}

\* the number of messages with query q or its response that device d enqueued
EnqueuedFor(d, q) ==
  Cardinality(SentCarrying(d, Query(q)))
    + Cardinality(UNION {SentCarrying(d, Response(q, b)) : b \in BOOLEAN})

\* what the deduplication records of device d allow for query q: its own
\* send, one rebroadcast of the query, one response as a gateway and one
\* rebroadcast of the response
AllowedFor(d, q, originated) ==
  (IF originated THEN 1 ELSE 0)
    + (IF QueryKey(q) \in d.rebroadcastedQueryIds THEN 1 ELSE 0)
    + (IF q \in d.processedRelayQueries THEN 1 ELSE 0)
    + (IF RespKey(q) \in d.rebroadcastedQueryIds THEN 1 ELSE 0)

\* C33: without a reset, the messages a device enqueues for a query id are
\* bounded by its deduplication records, which only grow: on each of the
\* devices in range of each other, at most the own send, one rebroadcast of
\* the query, one gateway response and one rebroadcast of the response,
\* whatever the connectivity and however often the chunks are heard.
C33_FloodQuiescence ==
  \A q \in QueryIds :
    /\ EnqueuedFor(Cur, q) <= AllowedFor(Cur, q, Originated(q))
    /\ EnqueuedFor(peer, q) <= AllowedFor(peer, q, FALSE)

\* both devices are offline listeners and each has rebroadcast the query of
\* the other: the sender holds two messages with its query, the peer one
C33_Flooded ==
  \E q \in QueryIds :
    /\ Cardinality(SentCarrying(Cur, Query(q))) = 2
    /\ Cardinality(SentCarrying(peer, Query(q))) = 1
    /\ QueryKey(q) \in rebroadcastedQueryIds \cap peer.rebroadcastedQueryIds

(* ------------------------------ claim C34 ------------------------------ *)
\* C34: no query id is at once in processedRelayQueries and in
\* rebroadcastedQueryIds of the device, and since the last reset no query was
\* both sent to the backend and rebroadcast by it, whatever the connectivity
\* did in between.
C34_ProcessedXorRebroadcast ==
  \A q \in AllQueryIds :
    /\ ~(q \in processedRelayQueries /\ QueryKey(q) \in rebroadcastedQueryIds)
    /\ ~(backendCalled[q] > 0 /\ queryRebroadcasts[q] > 0)

\* the device sent query q to the backend once and rebroadcast nothing,
\* although two messages with the query were handed on and the device has
\* lost its connectivity
C34_ProcessedThenOffline ==
  \E q \in QueryIds :
    /\ q \in processedRelayQueries
    /\ backendCalled[q] = 1
    /\ queryRebroadcasts[q] = 0
    /\ ~hasInternet
    /\ resetPc = "idle"
    /\ Cardinality(HandedCarrying(Query(q))) = 2

(* ------------------------------ claim C35 ------------------------------ *)
\* the frames of an incident report
ReportChunks == UNION {ChunksOf(Stringify(Report), id, FALSE) : id \in ReasmIds}

\* a peer's incident report is heard
ReceiveReport == Receive(ReportChunks)

\* a device that broadcasts its own messages and acknowledges the reports it
\* receives, with connectivity changes and stop/start
NextQueue ==
  \/ UserBroadcast
  \/ ReceiveReport
  \/ StoreReturn
  \/ Tick
  \/ NetChange
  \/ StartBroadcasting
  \/ StopBroadcasting

SpecQueue == Init /\ [][NextQueue]_vars

\* the chunks of the queued entries
QueuedChunks ==
  UNION {Range(broadcastQueue[i].chunks) : i \in 1..Len(broadcastQueue)}

\* the cursor as the last tick, purge or replacement left it points outside
\* the queue or outside the entry it is on
StaleCursor ==
  \/ broadcastCursor.queueIndex >= Len(broadcastQueue)
  \/ broadcastCursor.chunkIndex >=
       Len(broadcastQueue[SelectEntry(Cur) + 1].chunks)

EchoDelivered(c) == order' = <<c>> /\ order' # order

====
